---- MODULE Spec2Model ----
(***************************************************************************)
(* Model of src/src/euler.rs: the explicit Euler integrator with           *)
(* instantaneous event updates and three nested fixed-rate loops.          *)
(*                                                                         *)
(* Numbers.  Times and state values are integers: multiples of one tick.   *)
(* For the bounded values used here every f64 operation of the source is   *)
(* exact when the tick is a power of two, and the quotient of two small    *)
(* integers is never rounded across an integer, so ceil of the f64         *)
(* quotient is the integer ceiling computed by Ceil.  The state is the     *)
(* one-dimensional case of OVector<T, D>.                                  *)
(***************************************************************************)
EXTENDS Integers, Sequences, FiniteSets

\* ---------------------------------------------------------------- bounds
MaxX0 == 1
MaxXEnd == 4
MaxH == 3
MaxY0 == 1
MaxK == 1
MaxCalls == 2

VARIABLES
    f,            \* euler.rs:14  the System: its derivative and event function
    x, y,         \* euler.rs:15-16  current time and state
    x_end,        \* euler.rs:17  final time
    step_size,    \* euler.rs:18  [0] event, [1] observation, [2] report rate
    x_out, y_out, \* euler.rs:19-20  the output trace
    stats,        \* euler.rs:21  [num_eval, accepted_steps]
    num_steps, num_steps_per_obs, num_steps_per_event,
                  \* euler.rs:63-65  locals of integrate
    i_report, i_obs, i_event,
                  \* euler.rs:67,68,71  the three loop counters
    pc,           \* position inside integrate, "idle" outside a call
    result,       \* euler.rs:85  what the last call of integrate returned
    calls,        \* number of calls of integrate made so far
    x0, y0,       \* euler.rs:42  the x and y handed to Euler::new
    start,        \* x and y when the current call of integrate began
    log,          \* euler.rs:61,80,93,105  calls made on f during the
                  \* current call of integrate, in order, with arguments
    noev          \* the same run with lines 69-70 (the event update) left
                  \* out: its x, y, trace, statistics and observer calls

vars == <<f, x, y, x_end, step_size, x_out, y_out, stats, num_steps,
          num_steps_per_obs, num_steps_per_event, i_report, i_obs, i_event,
          pc, result, calls, x0, y0, start, log, noev>>

\* ------------------------------------------------------- the System used
\* Derivatives: a constant k, or x + y.  Events: no change, an impulse of
\* one, or a reset of the state to zero.
Odes == {<<"const", k>> : k \in 0..MaxK} \cup {<<"lin", 1>>}

Events == {"zero", "impulse", "reset"}

ode(sys, xx, yy) == IF sys.ode[1] = "const" THEN sys.ode[2] ELSE xx + yy

event(sys, xx, yy) ==
    CASE sys.event = "zero" -> 0
      [] sys.event = "impulse" -> 1
      [] sys.event = "reset" -> 0 - yy

\* ------------------------------------------------------------ arithmetic
\* the quotient truncated instead of rounded up
Ceil_truncating(a, b) == a \div b

\* ceil(a / b) for b > 0
Ceil(a, b) == 0 - ((0 - a) \div b)

\* the magnitude kept when the sign is dropped
AsUsize_magnitude(n) == IF n < 0 THEN 0 - n ELSE n

\* `as usize` on a float: negative values saturate to zero
AsUsize(n) == IF n < 0 THEN 0 ELSE n

\* the report count taken from x_end alone, without the current time
NumSteps_ignoring_x(xe, xs, h) == AsUsize(Ceil(xe, h[2]))

NumSteps(xe, xs, h) == AsUsize(Ceil(xe - xs, h[2]))

\* the middle count taken from the wrong pair of rates
NumStepsPerObs_swapped(h) == AsUsize(Ceil(h[1], h[0]))

NumStepsPerObs(h) == AsUsize(Ceil(h[2], h[1]))

NumStepsPerEvent(h) == AsUsize(Ceil(h[1], h[0]))

\* ------------------------------------------------------ step and e_step
\* the state advanced by the observation rate instead of the event rate
step_wrong_rate(sys, xx, yy, h) == <<xx + h[0], yy + ode(sys, xx, yy) * h[1]>>

\* time stepped backwards
step_backwards(sys, xx, yy, h) == <<xx - h[0], yy + ode(sys, xx, yy) * h[0]>>

\* the derivative sampled at the new time instead of the current one
step_post_x(sys, xx, yy, h) ==
    <<xx + h[0], yy + ode(sys, xx + h[0], yy) * h[0]>>

\* One step of the forward Euler method: <<x_new, y_new>>
step(sys, xx, yy, h) == <<xx + h[0], yy + ode(sys, xx, yy) * h[0]>>

\* the delta returned without the state it is added to
e_step_delta_only(sys, xx, yy) == event(sys, xx, yy)

\* The event update: y_new; time is not advanced
e_step(sys, xx, yy) == yy + event(sys, xx, yy)

\* only one of the two counters raised
count_step_one(s) ==
    [num_eval |-> s.num_eval + 1, accepted_steps |-> s.accepted_steps]

count_step(s) ==
    [num_eval |-> s.num_eval + 1, accepted_steps |-> s.accepted_steps + 1]

ZeroStats == [num_eval |-> 0, accepted_steps |-> 0]

Observed(xx, yy) == [op |-> "observer", x |-> xx, y |-> yy]

\* ------------------------------------------------------- configurations
StepSizes == [0..2 -> 1..MaxH]

\* x0 = 0, x_end = 1, step sizes [0.1, 0.1, 1.0], in tenths; the three f64
\* quotients of lines 63-65 are exactly 1, 10 and 1 for both scalings
TenthsConfig ==
    [x |-> 0, x_end |-> 10, h |-> [i \in 0..2 |-> IF i = 2 THEN 10 ELSE 1]]

Configs ==
    {[x |-> a, x_end |-> b, h |-> h] :
        a \in 0..MaxX0, b \in 0..MaxXEnd, h \in StepSizes}
    \cup {TenthsConfig}

\* Euler::new
Init ==
    /\ \E c \in Configs :
         /\ x = c.x /\ x0 = c.x
         /\ x_end = c.x_end
         /\ step_size = c.h
    /\ \E d \in Odes, e \in Events : f = [ode |-> d, event |-> e]
    /\ \E b \in 0..MaxY0 : y = b /\ y0 = b
    /\ x_out = <<>> /\ y_out = <<>>
    /\ stats = ZeroStats
    /\ num_steps = 0 /\ num_steps_per_obs = 0 /\ num_steps_per_event = 0
    /\ i_report = 0 /\ i_obs = 0 /\ i_event = 0
    /\ pc = "idle"
    /\ result = [tag |-> "none", stats |-> ZeroStats]
    /\ calls = 0
    /\ start = [x |-> x, y |-> y]
    /\ log = <<>>
    /\ noev = [x |-> x, y |-> y, x_out |-> <<>>, y_out |-> <<>>,
               stats |-> ZeroStats, observed |-> <<>>]

config == <<f, x_end, step_size, x0, y0>>

\* the trace and the counters started afresh by every call
Begin_clearing ==
    /\ pc = "idle"
    /\ calls < MaxCalls
    /\ calls' = calls + 1
    /\ start' = [x |-> x, y |-> y]
    /\ x_out' = <<x>>
    /\ y_out' = <<y>>
    /\ stats' = ZeroStats
    /\ log' = <<Observed(x, y)>>
    /\ num_steps' = NumSteps(x_end, x, step_size)
    /\ num_steps_per_obs' = NumStepsPerObs(step_size)
    /\ num_steps_per_event' = NumStepsPerEvent(step_size)
    /\ i_report' = 0
    /\ result' = [tag |-> "none", stats |-> ZeroStats]
    /\ pc' = "outer"
    /\ noev' = [noev EXCEPT !.x_out = Append(@, noev.x),
                            !.y_out = Append(@, noev.y),
                            !.observed = <<Observed(noev.x, noev.y)>>]
    /\ UNCHANGED <<config, x, y, i_obs, i_event>>

\* integrate: save the initial values, call the observer, compute the counts
Begin ==
    /\ pc = "idle"
    /\ calls < MaxCalls
    /\ calls' = calls + 1
    /\ start' = [x |-> x, y |-> y]
    /\ x_out' = Append(x_out, x)
    /\ y_out' = Append(y_out, y)
    /\ log' = <<Observed(x, y)>>
    /\ num_steps' = NumSteps(x_end, x, step_size)
    /\ num_steps_per_obs' = NumStepsPerObs(step_size)
    /\ num_steps_per_event' = NumStepsPerEvent(step_size)
    /\ i_report' = 0
    /\ result' = [tag |-> "none", stats |-> ZeroStats]
    /\ pc' = "outer"
    /\ noev' = [noev EXCEPT !.x_out = Append(@, noev.x),
                            !.y_out = Append(@, noev.y),
                            !.observed = <<Observed(noev.x, noev.y)>>]
    /\ UNCHANGED <<config, x, y, stats, i_obs, i_event>>

\* for _ in 0..num_steps: enter one report iteration
ReportIteration ==
    /\ pc = "outer"
    /\ i_report < num_steps
    /\ i_obs' = 0
    /\ pc' = "middle"
    /\ UNCHANGED <<config, x, y, x_out, y_out, stats, num_steps,
                   num_steps_per_obs, num_steps_per_event, i_report, i_event,
                   result, calls, start, log, noev>>

\* the event update counted as a derivative evaluation
EventUpdate_counting ==
    /\ pc = "middle"
    /\ i_obs < num_steps_per_obs
    /\ y' = e_step(f, x, y)
    /\ stats' = [stats EXCEPT !.num_eval = @ + 1]
    /\ log' = Append(log, [op |-> "event", x |-> x, y |-> y])
    /\ i_event' = 0
    /\ pc' = "inner"
    /\ UNCHANGED <<config, x, x_out, y_out, num_steps,
                   num_steps_per_obs, num_steps_per_event, i_report, i_obs,
                   result, calls, start, noev>>

\* for _ in 0..num_steps_per_obs: the event update opens the iteration
EventUpdate ==
    /\ pc = "middle"
    /\ i_obs < num_steps_per_obs
    /\ y' = e_step(f, x, y)
    /\ log' = Append(log, [op |-> "event", x |-> x, y |-> y])
    /\ i_event' = 0
    /\ pc' = "inner"
    /\ UNCHANGED <<config, x, x_out, y_out, stats, num_steps,
                   num_steps_per_obs, num_steps_per_event, i_report, i_obs,
                   result, calls, start, noev>>

\* the event update applied before every Euler step
EulerStep_with_event ==
    /\ pc = "inner"
    /\ i_event < num_steps_per_event
    /\ x' = step(f, x, e_step(f, x, y), step_size)[1]
    /\ y' = step(f, x, e_step(f, x, y), step_size)[2]
    /\ stats' = count_step(stats)
    /\ log' = log \o <<[op |-> "event", x |-> x, y |-> y],
                       [op |-> "ode", x |-> x, y |-> e_step(f, x, y)]>>
    /\ i_event' = i_event + 1
    /\ noev' = [noev EXCEPT !.x = step(f, noev.x, noev.y, step_size)[1],
                            !.y = step(f, noev.x, noev.y, step_size)[2],
                            !.stats = count_step(noev.stats)]
    /\ UNCHANGED <<config, x_out, y_out, num_steps, num_steps_per_obs,
                   num_steps_per_event, i_report, i_obs, pc, result, calls,
                   start>>

\* for _ in 0..num_steps_per_event: one Euler step
EulerStep ==
    /\ pc = "inner"
    /\ i_event < num_steps_per_event
    /\ x' = step(f, x, y, step_size)[1]
    /\ y' = step(f, x, y, step_size)[2]
    /\ stats' = count_step(stats)
    /\ log' = Append(log, [op |-> "ode", x |-> x, y |-> y])
    /\ i_event' = i_event + 1
    /\ noev' = [noev EXCEPT !.x = step(f, noev.x, noev.y, step_size)[1],
                            !.y = step(f, noev.x, noev.y, step_size)[2],
                            !.stats = count_step(noev.stats)]
    /\ UNCHANGED <<config, x_out, y_out, num_steps, num_steps_per_obs,
                   num_steps_per_event, i_report, i_obs, pc, result, calls,
                   start>>

\* the observer called at the end of every observation iteration
ObsIterationEnd_observing ==
    /\ pc = "inner"
    /\ i_event >= num_steps_per_event
    /\ i_obs' = i_obs + 1
    /\ log' = Append(log, Observed(x, y))
    /\ pc' = "middle"
    /\ UNCHANGED <<config, x, y, x_out, y_out, stats, num_steps,
                   num_steps_per_obs, num_steps_per_event, i_report, i_event,
                   result, calls, start, noev>>

\* the inner loop is exhausted: next observation iteration
ObsIterationEnd ==
    /\ pc = "inner"
    /\ i_event >= num_steps_per_event
    /\ i_obs' = i_obs + 1
    /\ pc' = "middle"
    /\ UNCHANGED <<config, x, y, x_out, y_out, stats, num_steps,
                   num_steps_per_obs, num_steps_per_event, i_report, i_event,
                   result, calls, start, log, noev>>

\* the report count computed again from the current time at every report
Observe_rereading ==
    /\ pc = "middle"
    /\ i_obs >= num_steps_per_obs
    /\ log' = Append(log, Observed(x, y))
    /\ i_report' = i_report + 1
    /\ num_steps' = NumSteps(x_end, x, step_size)
    /\ pc' = "outer"
    /\ noev' = [noev EXCEPT !.observed = Append(@, Observed(noev.x, noev.y))]
    /\ UNCHANGED <<config, x, y, x_out, y_out, stats,
                   num_steps_per_obs, num_steps_per_event, i_obs, i_event,
                   result, calls, start>>

\* the middle loop is exhausted: call the observer, next report iteration
Observe ==
    /\ pc = "middle"
    /\ i_obs >= num_steps_per_obs
    /\ log' = Append(log, Observed(x, y))
    /\ i_report' = i_report + 1
    /\ pc' = "outer"
    /\ noev' = [noev EXCEPT !.observed = Append(@, Observed(noev.x, noev.y))]
    /\ UNCHANGED <<config, x, y, x_out, y_out, stats, num_steps,
                   num_steps_per_obs, num_steps_per_event, i_obs, i_event,
                   result, calls, start>>

\* the outer loop is exhausted: save the final state and return Ok(stats)
Finish ==
    /\ pc = "outer"
    /\ i_report >= num_steps
    /\ x_out' = Append(x_out, x)
    /\ y_out' = Append(y_out, y)
    /\ result' = [tag |-> "Ok", stats |-> stats]
    /\ pc' = "idle"
    /\ noev' = [noev EXCEPT !.x_out = Append(@, noev.x),
                            !.y_out = Append(@, noev.y)]
    /\ UNCHANGED <<config, x, y, stats, num_steps, num_steps_per_obs,
                   num_steps_per_event, i_report, i_obs, i_event, calls,
                   start, log>>

\* the steps of a call that is under way
Run ==
    \/ ReportIteration
    \/ EventUpdate
    \/ EulerStep
    \/ ObsIterationEnd
    \/ Observe
    \/ Finish

Next == Begin \/ Run

Spec == Init /\ [][Next]_vars

\* integrate is synchronous: once called it runs until it returns
FairSpec == Spec /\ WF_vars(Run)

\* ------------------------------------------------- reading the call log
Returned == pc = "idle" /\ result.tag = "Ok"

FirstRunReturned == Returned /\ calls = 1

Positions(op) == {p \in DOMAIN log : log[p].op = op}

Between(op, a, b) == {p \in Positions(op) : a < p /\ p < b}

\* two observer calls with no observer call between them
ConsecutiveObservers(p, q) ==
    /\ p \in Positions("observer") /\ q \in Positions("observer")
    /\ p < q
    /\ Between("observer", p, q) = {}

\* the loop counts of the current call, from the values at its start
NumReportSteps == NumSteps(x_end, start.x, step_size)

NumObsPerReport == NumStepsPerObs(step_size)

NumEventPerObs == NumStepsPerEvent(step_size)

Divides(a, b) == b % a = 0

\* ---------------------------------------------------------------- claims

\* C1 (as stated): after the first call of integrate, when h_report evenly
\* divides x_end - x0, x_out and y_out hold num_report_steps + 2 samples.
C1_OutputCadence ==
    (FirstRunReturned /\ Divides(step_size[2], x_end - x0))
        => /\ Len(y_out) = NumReportSteps + 2
           /\ Len(x_out) = NumReportSteps + 2

C3_ObserverCadence ==
    calls >= 1 =>
        /\ log[1] = Observed(start.x, start.y)
        /\ calls = 1 => log[1] = Observed(x0, y0)
        /\ \A p, q \in DOMAIN log :
             ConsecutiveObservers(p, q) =>
                /\ Cardinality(Between("event", p, q)) = NumObsPerReport
                /\ Cardinality(Between("ode", p, q))
                      = NumObsPerReport * NumEventPerObs
        /\ Returned =>
             /\ Cardinality(Positions("observer")) = NumReportSteps + 1
             /\ log[Len(log)].op = "observer"

C3_Witness ==
    /\ FirstRunReturned
    /\ Cardinality(Positions("observer")) >= 3
    /\ NumObsPerReport >= 2
    /\ NumEventPerObs >= 2

\* C4: every Euler step belongs to a burst opened by an event update: the
\* nearest event update before it is at most num_event_per_obs entries back
\* with only Euler steps between; every event update is followed by Euler
\* steps only, num_event_per_obs of them, before anything else; a call that
\* has returned applied num_report_steps * num_obs_per_report event updates.
C4_EventBeforeBurst ==
    /\ \A p \in Positions("ode") :
         \E q \in Positions("event") :
            /\ q < p /\ p - q <= NumEventPerObs
            /\ \A r \in (q + 1)..p : log[r].op = "ode"
    /\ \A q \in Positions("event") :
         /\ \A r \in (q + 1)..(q + NumEventPerObs) :
               r \in DOMAIN log => log[r].op = "ode"
         /\ (q + NumEventPerObs + 1) \in DOMAIN log
               => log[q + NumEventPerObs + 1].op # "ode"
    /\ Returned =>
         Cardinality(Positions("event")) = NumReportSteps * NumObsPerReport

C4_Witness ==
    /\ FirstRunReturned
    /\ f.event # "zero"
    /\ NumEventPerObs >= 2
    /\ Cardinality(Positions("event")) >= 4

\* C5: with a constant derivative k and a zero event delta, the state after
\* n Euler steps is y0 + k * n * h_event, whatever h_obs and h_report are.
C5_EulerConsistency ==
    (f.ode[1] = "const" /\ f.event = "zero")
        => y = y0 + f.ode[2] * stats.accepted_steps * step_size[0]

C5_Witness ==
    /\ f.ode[1] = "const" /\ f.ode[2] >= 1 /\ f.event = "zero"
    /\ stats.accepted_steps >= 3
    /\ step_size[1] # step_size[0]
    /\ step_size[2] # step_size[1]
    /\ pc = "inner"

IsObserver(e) == e.op = "observer"

\* C6: with an event function that always returns a zero delta, the run and
\* the same run without the event update agree at every point on (x, y), on
\* the observer's arguments, on the output trace and on the statistics.
C6_ZeroEventNoOp ==
    f.event = "zero"
        => /\ noev.x = x /\ noev.y = y
           /\ noev.x_out = x_out /\ noev.y_out = y_out
           /\ noev.stats = stats
           /\ noev.observed = SelectSeq(log, IsObserver)

C6_Witness ==
    /\ f.event = "zero"
    /\ FirstRunReturned
    /\ y # 0 /\ y # y0
    /\ Cardinality(Positions("event")) >= 2

NonDecreasing(s) == \A p, q \in DOMAIN s : p <= q => s[p] <= s[q]

counts == <<num_steps, num_steps_per_obs, num_steps_per_event>>

ValidConfig ==
    /\ 0 < step_size[0]
    /\ step_size[0] <= step_size[1]
    /\ step_size[1] <= step_size[2]

\* C8, state part: while a call runs the loop counts are the ones computed
\* at its start; the only result ever returned is Ok, carrying the final
\* statistics, and it is returned after exactly num_report_steps outer,
\* num_obs_per_report middle and num_event_per_obs inner iterations each.
C8_CompletesOrNotStarted ==
    /\ result.tag \in {"none", "Ok"}
    /\ calls >= 1 =>
         counts = <<NumReportSteps, NumObsPerReport, NumEventPerObs>>
    /\ Returned =>
         /\ i_report = NumReportSteps
         /\ Cardinality(Positions("observer")) = NumReportSteps + 1
         /\ Cardinality(Positions("event")) = NumReportSteps * NumObsPerReport
         /\ Cardinality(Positions("ode"))
               = NumReportSteps * NumObsPerReport * NumEventPerObs
         /\ result.stats = stats
    /\ (calls = 0 /\ pc = "idle") =>
         x = x0 /\ y = y0 /\ stats = ZeroStats /\ result.tag = "none"

\* C8, step part: the counts are not written while a call is stepping
C8_CountsFixed == (pc # "idle" /\ pc' # "idle") => counts' = counts

\* C8: a call of integrate completes all the precomputed iterations and
\* returns Ok with the final statistics; the counts are fixed before the
\* loops start; with positive ordered step sizes a call that has started
\* always returns; no error is ever returned.
C8_RunsToCompletion ==
    /\ []C8_CompletesOrNotStarted
    /\ [][C8_CountsFixed]_vars
    /\ ((pc # "idle" /\ ValidConfig) ~> Returned)

C8_Witness ==
    /\ FirstRunReturned
    /\ ValidConfig
    /\ Cardinality(Positions("observer")) >= 3
    /\ ~Divides(step_size[0], step_size[1])

IsTenthsConfig ==
    /\ x0 = TenthsConfig.x
    /\ x_end = TenthsConfig.x_end
    /\ step_size = TenthsConfig.h

\* C9 (as stated): for x0 = 0, x_end = 1, step sizes [0.1, 0.1, 1.0] (in
\* tenths: 0, 10, [1, 1, 10]) the inner/middle/outer loop counts are
\* 10, 1, 1 and num_eval is 10 when integrate returns.
C9_CountsAsStated ==
    (IsTenthsConfig /\ FirstRunReturned)
        => /\ num_steps_per_event = 10
           /\ num_steps_per_obs = 1
           /\ num_steps = 1
           /\ stats.num_eval = 10

\* C9 (amended): for that configuration the inner/middle/outer loop counts
\* are 1, 10, 1 and num_eval is 10 when integrate returns.
C9_CountsAmended ==
    (IsTenthsConfig /\ FirstRunReturned)
        => /\ num_steps_per_event = 1
           /\ num_steps_per_obs = 10
           /\ num_steps = 1
           /\ stats.num_eval = 10

C9_Witness == IsTenthsConfig /\ FirstRunReturned /\ Len(log) > 10

\* C10, state part: x = x0 + accepted_steps * h_event, num_eval = accepted_steps
C10_TimeFromSteps ==
    /\ x = x0 + stats.accepted_steps * step_size[0]
    /\ stats.num_eval = stats.accepted_steps

\* C10, step part: whatever changes x or a counter is one Euler step
C10_StepEffect ==
    (x' # x \/ stats' # stats)
        => /\ x' = x + step_size[0]
           /\ y' = y + ode(f, x, y) * step_size[0]
           /\ stats'.num_eval = stats.num_eval + 1
           /\ stats'.accepted_steps = stats.accepted_steps + 1

\* C10: only the Euler step advances time: x = x0 + accepted_steps * h_event
\* and num_eval = accepted_steps throughout; each Euler step adds h_event to
\* x, sets y to y + f(x, y) * h_event from the values before the step, and
\* raises both counters by one.
C10_OnlyStepAdvancesTime ==
    /\ []C10_TimeFromSteps
    /\ [][C10_StepEffect]_vars

C10_Witness ==
    /\ pc = "inner"
    /\ f.ode[1] = "lin"
    /\ stats.accepted_steps >= 2
    /\ x > x0 /\ y > y0

Last(s) == s[Len(s)]

\* a transition that is an event update: it adds an event call to the log
IsEventUpdate == Len(log') = Len(log) + 1 /\ Last(log').op = "event"

C11_EventStep ==
    IsEventUpdate
        => /\ y' = y + event(f, x, y)
           /\ x' = x
           /\ stats' = stats
           /\ x_out' = x_out /\ y_out' = y_out

\* C11: an event update changes only y, to y + event(x, y); it leaves the
\* time x, the counters num_eval and accepted_steps and the output trace
\* x_out / y_out unchanged.
C11_EventChangesOnlyY == [][C11_EventStep]_vars

C11_Witness ==
    /\ pc = "inner" /\ i_event = 0
    /\ Last(log).op = "event"
    /\ f.event # "zero"
    /\ y = Last(log).y + event(f, Last(log).x, Last(log).y)
    /\ y # Last(log).y
    /\ x = Last(log).x /\ x > x0
    /\ stats.accepted_steps >= 1

IsPrefix(s, t) == Len(s) <= Len(t) /\ \A p \in DOMAIN s : t[p] = s[p]

\* C12, state part: between calls, where the getters can run, x_out and
\* y_out have the same length; before the first call the counters are zero
C12_TraceReadable ==
    /\ pc = "idle" => Len(x_out) = Len(y_out)
    /\ calls = 0 => stats = ZeroStats

\* C12, step part: no step lowers a counter or rewrites the trace
C12_Step ==
    /\ stats'.num_eval >= stats.num_eval
    /\ stats'.accepted_steps >= stats.accepted_steps
    /\ IsPrefix(x_out, x_out')
    /\ IsPrefix(y_out, y_out')

\* C12: across any sequence of integrate calls the counters never decrease
\* and are never reset, x_out and y_out have the same length wherever they
\* can be read, and the trace is append-only.
C12_CountersAndTraceGrow ==
    /\ []C12_TraceReadable
    /\ [][C12_Step]_vars

C12_Witness ==
    /\ Returned
    /\ calls = 2
    /\ Len(x_out) = 4 /\ Len(y_out) = 4
    /\ stats.accepted_steps >= 2
    /\ x_out[2] # x_out[1]

AllDivide ==
    /\ Divides(step_size[0], step_size[1])
    /\ Divides(step_size[1], step_size[2])
    /\ Divides(step_size[2], x_end - x0)

\* the time the three loops reach from x0
PlannedEnd ==
    x0 + NumSteps(x_end, x0, step_size) * NumObsPerReport * NumEventPerObs
            * step_size[0]

C14_EmptyRun ==
    (calls = 1 /\ x_end <= x0)
        => /\ Positions("event") = {} /\ Positions("ode") = {}
           /\ x = x0 /\ y = y0
           /\ stats = ZeroStats
           /\ result.tag # "Err"
           /\ log = <<Observed(x0, y0)>>
           /\ Returned =>
                /\ result = [tag |-> "Ok", stats |-> ZeroStats]
                /\ x_out = <<x0, x0>>
                /\ y_out = <<y0, y0>>

C14_Witness ==
    /\ FirstRunReturned
    /\ x_end < x0
    /\ step_size[2] <= x0 - x_end
    /\ f.event # "zero"
    /\ f.ode[1] = "lin"
    /\ Len(x_out) = 2

SecondCall == calls = 2 /\ ValidConfig /\ x_end >= x0

\* C15, state part: the second call starts from the first run's final
\* sample, which is at or past x_end, so its outer count is 0; it makes the
\* one observer call and no other; the counters stay at the first run's
\* values; when it returns the trace holds four samples, the last two equal
\* to the first run's final sample.
C15_SecondCallState ==
    SecondCall
        => /\ start = [x |-> x_out[2], y |-> y_out[2]]
           /\ start.x >= x_end
           /\ num_steps = 0
           /\ log = <<Observed(start.x, start.y)>>
           /\ x = start.x /\ y = start.y
           /\ stats.num_eval = stats.accepted_steps
           /\ x = x0 + stats.accepted_steps * step_size[0]
           /\ x_out[3] = x_out[2] /\ y_out[3] = y_out[2]
           /\ Returned =>
                /\ Len(x_out) = 4 /\ Len(y_out) = 4
                /\ x_out[4] = x_out[2] /\ y_out[4] = y_out[2]
                /\ result = [tag |-> "Ok", stats |-> stats]

\* C15, step part: entering and running the second call changes neither x,
\* y nor the counters, and only ever appends to the trace
C15_SecondCallStep ==
    (calls' = 2 /\ ValidConfig /\ x_end >= x0)
        => /\ x' = x /\ y' = y /\ stats' = stats
           /\ IsPrefix(x_out, x_out') /\ IsPrefix(y_out, y_out')

====
